---- MODULE Spec2Model ----
(***************************************************************************)
(* Semantic analysis of the compiler front end:                            *)
(*   - the side-table resolver   src/compile/syntax_level_check.rs         *)
(*   - the annotation generator  src/compile/checks/                       *)
(*                               variable_annotation_generation.rs         *)
(*   - the type checker          src/compile/typecheck/typechecker.rs      *)
(* A resolver pass is a recursive walk over the syntax tree.  The walk is  *)
(* modelled by the visitor's position (frames, pc); the tree itself is     *)
(* produced on the fly: every step chooses the next construct the visitor  *)
(* meets (a block with its declarations, a function with its parameters,   *)
(* a name reference, the end of a block or of a function body).            *)
(***************************************************************************)
EXTENDS Integers, Sequences, FiniteSets, TLC

VARIABLES pc, frames, nextTok, declared, checker, check_result, annotator, annot_result,
          type_stack, type_result, type_frames, type_map, type_node, visited,
          typecheck_result

walkVars == <<pc, frames, nextTok, declared>>
checkVars == <<checker, check_result>>
annotVars == <<annotator, annot_result>>
typeVars == <<type_stack, type_result, type_frames, type_map, type_node, visited,
             typecheck_result>>
resolverVars == <<pc, frames, nextTok, declared, checker, check_result, annotator, annot_result>>
vars == <<pc, frames, nextTok, declared, checker, check_result, annotator, annot_result,
          type_stack, type_result, type_frames, type_map, type_node, visited,
          typecheck_result>>

(***************************************************************************)
(* Bounds of the generated programs.                                       *)
(***************************************************************************)
\* scope-introducing tokens of a program (its blocks and functions); the
\* nesting of scopes is at most as deep
MaxTok == 4
\* size of a program: the names it declares (variables, functions and
\* parameters) and its anonymous functions, counted together
MaxDecls == 3

Names == {"a", "b"}

\* The token that opens the program's top-level block; every other scope
\* token is a different source position.
ProgramTok == 0

Decl == [name : Names, fn : BOOLEAN]
SeqsUpTo(S, n) == UNION {[1..k -> S] : k \in 0..n}
\* the declarations of a block, and the parameters of a function, that the
\* program still has room for
DeclLists == SeqsUpTo(Decl, MaxDecls - declared)
ArgLists == SeqsUpTo(Names, MaxDecls - declared)

(***************************************************************************)
(* Maps (HashMap / IndexMap) as functions on the set of their keys.        *)
(***************************************************************************)
EmptyMap == <<>>
Put(m, k, v) == [x \in (DOMAIN m) \cup {k} |-> IF x = k THEN v ELSE m[x]]
Last(s) == s[Len(s)]
Front(s) == SubSeq(s, 1, Len(s) - 1)

NoErr == [kind |-> "", name |-> ""]
Fail(c, kind, n) == [c EXCEPT !.err = [kind |-> kind, name |-> n]]
\* the `?` operator: the rest of the handler runs only if no error was returned
Then(c, F(_)) == IF c.err # NoErr THEN c ELSE F(c)

(***************************************************************************)
(* syntax_level_check.rs : struct Checker                                  *)
(***************************************************************************)
CheckerNew ==
    [names |-> <<>>, total_variables |-> 0, current_block |-> <<>>,
     current_function |-> <<>>, variable_types |-> EmptyMap,
     closed_names |-> EmptyMap, err |-> NoErr]

C_new_scope(c, scope_type, token) ==
    LET c1 == IF scope_type = "Function"
              THEN [c EXCEPT !.current_function = Append(@, token),
                             !.closed_names = Put(@, token, {})]
              ELSE c
    IN [c1 EXCEPT
          !.names = Append(@, [type |-> scope_type, tok |-> token, map |-> EmptyMap]),
          !.current_block = Append(@, token),
          !.variable_types = Put(@, token, EmptyMap)]

\* pop_scope that leaves the count of variables as it is
C_pop_scope_keeps_total(c) ==
    LET scope == Last(c.names)
        c1 == IF scope.type = "Function"
              THEN [c EXCEPT !.current_function = Front(@)]
              ELSE c
    IN [c1 EXCEPT !.names = Front(@), !.current_block = Front(@)]

C_pop_scope(c) ==
    LET scope == Last(c.names)
        c1 == IF scope.type = "Function"
              THEN [c EXCEPT !.current_function = Front(@)]
              ELSE c
    IN [c1 EXCEPT
          !.names = Front(@),
          !.total_variables = @ - Cardinality(DOMAIN scope.map),
          !.current_block = Front(@)]

\* declare_name without the test for a name the scope already holds
C_declare_name_unchecked(c, n) ==
    [c EXCEPT
       !.total_variables = @ + 1,
       !.names[Len(c.names)].map = Put(@, n, FALSE),
       !.variable_types[Last(c.current_block)] = Put(@, n, "Normal")]

C_declare_name(c, n) ==
    IF n \in DOMAIN Last(c.names).map
    THEN Fail(c, "DuplicateDeclaration", n)
    ELSE [c EXCEPT
            !.total_variables = @ + 1,
            !.names[Len(c.names)].map = Put(@, n, FALSE),
            !.variable_types[Last(c.current_block)] = Put(@, n, "Normal")]

C_define_name(c, n) ==
    LET m == Last(c.names).map
    IN IF n \in DOMAIN m
       THEN IF m[n]
            THEN Fail(c, "DoubleDefinition", n)
            ELSE [c EXCEPT !.names[Len(c.names)].map = Put(@, n, TRUE)]
       ELSE Fail(c, "NotDeclared", n)

AddClosed(closed, toks, n) ==
    [t \in DOMAIN closed |-> IF t \in toks THEN closed[t] \cup {n} ELSE closed[t]]

\* a lookup that lets an unknown name pass
C_not_found_ignored(c, n) == c

\* lookup_local, the name is in no scope of the stack
C_not_found(c, n) == Fail(c, "NoSuchVariable", n)

\* a local lookup that does not test whether the name is defined
C_found_local_any(c, s, n) == c

\* lookup_local, the name is in scope s before any function scope was passed
C_found_local(c, s, n) ==
    IF s.map[n] THEN c ELSE Fail(c, "UseBeforeDefinition", n)

\* boxing keyed by the name alone: every scope's entry for n becomes Boxed
C_mark_boxed_by_name(c, s, n) ==
    [c EXCEPT !.variable_types =
        [t \in DOMAIN @ |-> IF n \in DOMAIN @[t] THEN Put(@[t], n, "Boxed") ELSE @[t]]]

\* lookup_local, the name is in scope s beyond a function scope: its entry
\* in the map of s becomes Boxed
C_mark_boxed(c, s, n) ==
    [c EXCEPT !.variable_types[s.tok] = Put(@, n, "Boxed")]

\* only the current function closes over the name, the functions in the way
\* are forgotten
C_mark_closed_current_only(c, depending_functions, n) ==
    [c EXCEPT !.closed_names = AddClosed(@, {Last(c.current_function)}, n)]

\* lookup_local, the name is in a scope beyond a function scope: the current
\* function and all functions in the way close over it
C_mark_closed(c, depending_functions, n) ==
    [c EXCEPT !.closed_names =
        AddClosed(@, {Last(c.current_function)} \cup depending_functions, n)]

RECURSIVE C_lookup_from(_, _, _, _, _)
C_lookup_from(c, n, i, passed_function_scope, depending_functions) ==
    IF i = 0
    THEN C_not_found(c, n)
    ELSE LET s == c.names[i]
         IN IF passed_function_scope
            THEN IF n \in DOMAIN s.map
                 THEN C_mark_closed(C_mark_boxed(c, s, n), depending_functions, n)
                 ELSE C_lookup_from(c, n, i - 1, TRUE,
                         IF s.type = "Function"
                         THEN depending_functions \cup {s.tok}
                         ELSE depending_functions)
            ELSE IF n \in DOMAIN s.map
                 THEN C_found_local(c, s, n)
                 ELSE C_lookup_from(c, n, i - 1, s.type = "Function",
                                    depending_functions)

C_lookup_local(c, n) == C_lookup_from(c, n, Len(c.names), FALSE, {})

RECURSIVE C_declare_all(_, _)
C_declare_all(c, decls) ==
    IF decls = <<>>
    THEN c
    ELSE Then(C_declare_name(c, Head(decls).name),
              LAMBDA c1 : C_declare_all(c1, Tail(decls)))

\* visit_block up to the first statement: new_scope and the pre-declarations
C_visit_block(c, token, decls) ==
    C_declare_all(C_new_scope(c, "Block", token), decls)

RECURSIVE C_declare_args(_, _)
C_declare_args(c, args) ==
    IF args = <<>>
    THEN c
    ELSE Then(C_declare_name(c, Head(args)),
              LAMBDA c1 : Then(C_define_name(c1, Head(args)),
                               LAMBDA c2 : C_declare_args(c2, Tail(args))))

\* check_function without the function's name in its own scope
C_check_function_nameless(c, token, name, args) ==
    C_declare_args(C_new_scope(c, "Function", token), args)

\* check_function up to the body
C_check_function(c, token, name, args) ==
    Then(C_declare_name(C_new_scope(c, "Function", token), name),
         LAMBDA c1 : Then(C_define_name(c1, name),
                          LAMBDA c2 : C_declare_args(c2, args)))

\* the end of check_function, and the define_name of visit_stmt that follows it
C_function_done(c, name) == C_define_name(C_pop_scope(c), name)

\* check(): the scope and the block pushed before the program is visited
C_check(c) ==
    LET c1 == C_new_scope(c, "Block", ProgramTok)
    IN [c1 EXCEPT !.current_block = Append(@, ProgramTok)]

NoResult == [tag |-> "None", err |-> NoErr, variable_types |-> EmptyMap,
             closed_names |-> EmptyMap]
C_ret(c, finished) ==
    IF c.err # NoErr
    THEN [NoResult EXCEPT !.tag = "Err", !.err = c.err]
    ELSE IF finished
         THEN [NoResult EXCEPT !.tag = "Ok", !.variable_types = c.variable_types,
                               !.closed_names = c.closed_names]
         ELSE NoResult

(***************************************************************************)
(* variable_annotation_generation.rs : struct AnnotationGenerator          *)
(* block_scopes and closure_scopes are the two tables of the Annotations   *)
(* object the generator writes to.                                         *)
(***************************************************************************)
AnnotationGeneratorNew ==
    [scopes |-> <<>>, block_scopes |-> EmptyMap, closure_scopes |-> EmptyMap,
     err |-> NoErr]

\* Annotations::get_or_create_block_scope / get_or_create_closure_scope
GetOrCreate(table, token, empty) ==
    IF token \in DOMAIN table THEN table ELSE Put(table, token, empty)

A_block_insert(a, token, n, class) ==
    [a EXCEPT !.block_scopes =
        [GetOrCreate(@, token, EmptyMap) EXCEPT ![token] = Put(@, n, class)]]

A_closure_insert(a, token, n) ==
    [a EXCEPT !.closure_scopes =
        [GetOrCreate(@, token, {}) EXCEPT ![token] = @ \cup {n}]]

A_new_scope(a, scope_type, token) ==
    [a EXCEPT !.scopes =
        Append(@, [type |-> scope_type, tok |-> token, map |-> EmptyMap])]

A_pop_scope(a) == [a EXCEPT !.scopes = Front(@)]

A_declare_name(a, n) ==
    A_block_insert([a EXCEPT !.scopes[Len(a.scopes)].map = Put(@, n, FALSE)],
                   Last(a.scopes).tok, n, "Normal")

\* define_name that records the name again, as declare_name does
A_define_name_redeclares(a, n) ==
    A_block_insert([a EXCEPT !.scopes[Len(a.scopes)].map = Put(@, n, TRUE)],
                   Last(a.scopes).tok, n, "Normal")

A_define_name(a, n) ==
    [a EXCEPT !.scopes[Len(a.scopes)].map = Put(@, n, TRUE)]

RECURSIVE A_lookup_local_from(_, _, _)
A_lookup_local_from(a, n, i) ==
    IF i = 0
    THEN FALSE
    ELSE LET s == a.scopes[i]
         IN IF n \in DOMAIN s.map /\ s.map[n]
            THEN TRUE
            ELSE IF s.type = "Function"
                 THEN FALSE
                 ELSE A_lookup_local_from(a, n, i - 1)

A_lookup_local(a, n) == A_lookup_local_from(a, n, Len(a.scopes))

RECURSIVE A_lookup_outer_from(_, _, _, _)
A_lookup_outer_from(a, n, i, passed_function_scope) ==
    IF i = 0
    THEN FALSE
    ELSE LET s == a.scopes[i]
         IN IF passed_function_scope
            THEN IF n \in DOMAIN s.map
                 THEN TRUE
                 ELSE A_lookup_outer_from(a, n, i - 1, TRUE)
            ELSE A_lookup_outer_from(a, n, i - 1, s.type = "Function")

A_lookup_outer(a, n) == A_lookup_outer_from(a, n, Len(a.scopes), FALSE)

\* the marking loop of lookup_name
RECURSIVE A_mark_from(_, _, _, _)
A_mark_from(a, n, i, passed_function_scope) ==
    IF i = 0
    THEN a
    ELSE LET s == a.scopes[i]
         IN IF ~passed_function_scope /\ s.type = "Function"
            THEN A_mark_from(A_closure_insert(a, s.tok, n), n, i - 1, TRUE)
            ELSE IF n \in DOMAIN s.map
                 THEN A_block_insert(a, s.tok, n, "Boxed")
                 ELSE IF s.type = "Function"
                      THEN A_mark_from(A_closure_insert(a, s.tok, n), n, i - 1,
                                       passed_function_scope)
                      ELSE A_mark_from(a, n, i - 1, passed_function_scope)

A_lookup_name(a, n) ==
    IF A_lookup_local(a, n)
    THEN a
    ELSE IF ~A_lookup_outer(a, n)
         THEN a
         ELSE A_mark_from(a, n, Len(a.scopes), FALSE)

RECURSIVE A_declare_all(_, _)
A_declare_all(a, decls) ==
    IF decls = <<>>
    THEN a
    ELSE A_declare_all(A_declare_name(a, Head(decls).name), Tail(decls))

\* visit_block up to the first statement
A_visit_block(a, token, decls) ==
    LET a1 == A_new_scope(a, "Block", token)
        a2 == [a1 EXCEPT !.block_scopes = GetOrCreate(@, token, EmptyMap)]
    IN A_declare_all(a2, decls)

RECURSIVE A_declare_args(_, _)
A_declare_args(a, args) ==
    IF args = <<>>
    THEN a
    ELSE A_declare_args(A_define_name(A_declare_name(a, Head(args)), Head(args)),
                        Tail(args))

\* visit_anon_function_expr up to the body
A_visit_anon_function_expr(a, arrow, args) ==
    LET a1 == A_new_scope(a, "Function", arrow)
        a2 == [a1 EXCEPT !.closure_scopes = GetOrCreate(@, arrow, {})]
    IN A_declare_args(a2, args)

\* visit_function_declaration_statement up to the body
A_visit_function_declaration_statement(a, token, name, args) ==
    A_define_name(A_visit_anon_function_expr(a, token, args), name)

\* generate_annotations: the scope pushed before the program is visited
A_generate_annotations(a) == A_new_scope(a, "Block", ProgramTok)

A_ret(a, finished) ==
    IF a.err # NoErr
    THEN [NoResult EXCEPT !.tag = "Err", !.err = a.err]
    ELSE IF finished
    THEN [NoResult EXCEPT !.tag = "Ok", !.variable_types = a.block_scopes,
                          !.closed_names = a.closure_scopes]
    ELSE NoResult

(***************************************************************************)
(* typechecker.rs : the types, and the typing of a binary expression       *)
(***************************************************************************)
\* operand values still waiting for their operator
MaxOperands == 3
\* size of a type-checked program: the expressions, statements and
\* declarations the checker visits
MaxNodes == 4

Prim(k) == [kind |-> k]
TypeUnspecified == Prim("Unspecified")
TypeNothing == Prim("Nothing")
TypeBool == Prim("Bool")
TypeInt == Prim("Int")
TypeFloat == Prim("Float")
TypeString == Prim("String")
\* a function type, as the definition of a declared function has it
SomeCallable ==
    [kind |-> "Callable", arguments |-> <<>>, vararg |-> <<>>, return_type |-> TypeInt]
\* a function of one parameter, and one of a parameter and a vararg
UnaryCallable ==
    [kind |-> "Callable", arguments |-> <<TypeInt>>, vararg |-> <<>>,
     return_type |-> TypeString]
VarargCallable ==
    [kind |-> "Callable", arguments |-> <<TypeInt>>, vararg |-> <<TypeBool>>,
     return_type |-> TypeFloat]
NoType == Prim("-")

\* the types a literal, a name or a statement used as an expression can have
LeafTypes ==
    {TypeUnspecified, TypeNothing, TypeBool, TypeInt, TypeFloat, TypeString,
     SomeCallable, UnaryCallable, VarargCallable}

\* Type::build_union
Members(t) == IF t.kind = "Union" THEN t.members ELSE {t}
build_union(a, b) ==
    LET m == Members(a) \cup Members(b)
    IN IF Cardinality(m) = 1
       THEN CHOOSE t \in m : TRUE
       ELSE [kind |-> "Union", members |-> m]

\* Type::is_unspecified
is_unspecified(t) == t.kind = "Unspecified"

BinaryOps ==
    {"Plus", "Minus", "Star", "Slash", "Power", "Mod", "Or", "And",
     "CompareEquals", "CompareNotEquals", "CompareGreater",
     "CompareGreaterEqual", "CompareLess", "CompareLessEqual"}

\* Arity (execution/arity.rs): a fixed count, with or without a vararg
NoArity == [some |-> FALSE, fixed |-> 0, vararg |-> FALSE]

NoTypeError ==
    [kind |-> "", expected |-> NoType, got |-> NoType, left |-> NoType,
     op |-> "", right |-> NoType, arity |-> NoArity, count |-> 0,
     target |-> NoType, localized |-> FALSE]
NoTypeResult == [tag |-> "None", type |-> NoType, err |-> NoTypeError]
TypeOk(t) == [NoTypeResult EXCEPT !.tag = "Ok", !.type = t]
TypeErr(e) == [NoTypeResult EXCEPT !.tag = "Err", !.err = e]
\* unimplemented!(), unwrap() on None: the thread panics, nothing is returned
TypePanic == [NoTypeResult EXCEPT !.tag = "Panic"]

TypeMismatch(expected, got) ==
    [NoTypeError EXCEPT !.kind = "TypeMismatch", !.expected = expected, !.got = got]
ArityMismatch(expected, got) ==
    [NoTypeError EXCEPT !.kind = "ArityMismatch", !.arity = expected, !.count = got]
OperationUnsupported(target) ==
    [NoTypeError EXCEPT !.kind = "OperationUnsupported", !.target = target]
UnspecifiedBinary(left, op, right) ==
    [NoTypeError EXCEPT !.kind = "UnspecifiedBinary", !.left = left, !.op = op,
                        !.right = right]
\* SomewhereTypeError::at
at(e) == [e EXCEPT !.localized = TRUE]
\* .map_err(|e| e.at(op.position).into())
LocalizedAtOp(r) == IF r.tag = "Err" THEN TypeErr(at(r.err)) ELSE r

IsNumber(t) == t = TypeInt \/ t = TypeFloat

\* number_upcast_binary_op with the right operand tested before the left
number_upcast_right_first(left, right) ==
    IF ~IsNumber(right)
    THEN TypeErr(TypeMismatch(build_union(TypeInt, TypeFloat), right))
    ELSE IF ~IsNumber(left)
         THEN TypeErr(TypeMismatch(build_union(TypeInt, TypeFloat), left))
         ELSE IF left = TypeInt /\ right = TypeInt
              THEN TypeOk(TypeInt)
              ELSE TypeOk(TypeFloat)

number_upcast_binary_op(left, right) ==
    IF ~IsNumber(left)
    THEN TypeErr(TypeMismatch(build_union(TypeInt, TypeFloat), left))
    ELSE IF ~IsNumber(right)
         THEN TypeErr(TypeMismatch(build_union(TypeInt, TypeFloat), right))
         ELSE IF left = TypeInt /\ right = TypeInt
              THEN TypeOk(TypeInt)
              ELSE TypeOk(TypeFloat)

\* the arm that also sends `mod` to the numeric promotion
IsUpcastArmWithMod(op) == op \in {"Minus", "Star", "Slash", "Power", "Mod"}

\* the arm num!(Minus) | num!(Star) | num!(Slash) | num!(Power)
IsUpcastArm(op) == op \in {"Minus", "Star", "Slash", "Power"}

\* the ordering arm with the two non-strict comparisons left out
IsStrictOrderingArm(op) == op \in {"CompareGreater", "CompareLess"}

\* num!(CompareGreater) | num!(CompareGreaterEqual) | num!(CompareLess)
\* | num!(CompareLessEqual)
IsOrderingArm(op) ==
    op \in {"CompareGreater", "CompareGreaterEqual", "CompareLess", "CompareLessEqual"}

\* the guard arms with the one on the right operand left out
HasUnspecifiedLeftOperand(left, right) == is_unspecified(left)

\* the guard arms `_ if left.is_unspecified()`, `_ if right.is_unspecified()`
HasUnspecifiedOperand(left, right) == is_unspecified(left) \/ is_unspecified(right)

\* the match of visit_binary_expr, arm by arm, on the operand types
visit_binary_expr(op, left, right) ==
    IF op \in {"CompareEquals", "CompareNotEquals"} THEN TypeOk(TypeBool)
    ELSE IF HasUnspecifiedOperand(left, right) THEN TypeOk(TypeUnspecified)
    ELSE IF left = TypeInt /\ op = "Mod" /\ right = TypeInt THEN TypeOk(TypeInt)
    ELSE IF left = TypeBool /\ op = "Or" /\ right = TypeBool THEN TypeOk(TypeBool)
    ELSE IF left = TypeBool /\ op = "And" /\ right = TypeBool THEN TypeOk(TypeBool)
    ELSE IF IsUpcastArm(op)
         THEN LocalizedAtOp(number_upcast_binary_op(left, right))
    ELSE IF op = "Plus"
         THEN IF left = TypeString /\ right = TypeString
              THEN TypeOk(TypeString)
              ELSE LocalizedAtOp(number_upcast_binary_op(left, right))
    ELSE IF IsOrderingArm(op)
         THEN IF left = TypeString /\ right = TypeString
              THEN TypeOk(TypeBool)
              ELSE LET r == LocalizedAtOp(number_upcast_binary_op(left, right))
                   IN IF r.tag = "Ok" THEN TypeOk(TypeBool) ELSE r
    ELSE IF op \in {"Or", "And"} THEN TypeOk(build_union(left, right))
    ELSE TypeErr(at(UnspecifiedBinary(left, op, right)))

(***************************************************************************)
(* The compatibility relation and the visits that use it.                  *)
(***************************************************************************)
\* Type::default(): the type of what has no recorded type
TypeDefault == TypeUnspecified

\* PartialOrd::le on Type, `provided <= expected`: identical types, an
\* Unspecified on either side, a union all of whose members are accepted
Type_le(provided, expected) ==
    \/ provided = expected
    \/ is_unspecified(expected)
    \/ \A m \in Members(provided) : m = expected \/ is_unspecified(m)

check_expectation(provided, expected) ==
    IF Type_le(provided, expected)
    THEN TypeOk(TypeNothing)
    ELSE TypeErr(TypeMismatch(expected, provided))

\* .map_err(|e| e.at(condition.get_pos())), .map_err(|e| e.at(keyword.position))
LocalizedAt(r) == IF r.tag = "Err" THEN TypeErr(at(r.err)) ELSE r

\* `?` : the value of an Ok, or the error returned at once
AndThen(r, t) == IF r.tag = "Ok" THEN TypeOk(t) ELSE r

UnaryOps == {"Not", "Minus"}

visit_unary_expr(op, t) ==
    IF op = "Not" THEN TypeOk(TypeBool)
    ELSE IF t = TypeUnspecified THEN TypeOk(TypeUnspecified)
    ELSE TypePanic

\* visit_cond_expr up to the check of the condition
visit_cond_expr_condition(condition_t) ==
    LocalizedAt(check_expectation(condition_t, TypeBool))

\* visit_cond_expr taking the then-branch's type when there is no else
visit_cond_expr_without_nothing(left, right) ==
    TypeOk(IF right = <<>> THEN left ELSE build_union(left, right[1]))

\* visit_cond_expr from the branches on; `right` is <<>> without an else
visit_cond_expr(left, right) ==
    TypeOk(build_union(left, IF right = <<>> THEN TypeNothing ELSE right[1]))

\* Type::get_arity: a Callable has the arity of its signature, a union is
\* called optimistically, the other types cannot be called
get_arity(t) ==
    IF t.kind = "Callable"
    THEN [some |-> TRUE, fixed |-> Len(t.arguments), vararg |-> t.vararg # <<>>]
    ELSE IF t.kind = "Union"
         THEN [some |-> TRUE, fixed |-> 0, vararg |-> TRUE]
         ELSE NoArity

\* Arity::accepts
accepts(arity, n) == IF arity.vararg THEN n >= arity.fixed ELSE n = arity.fixed

\* the arity check with every callable taken to have a vararg
ArityAcceptedAtLeast(target_t, n) == n >= get_arity(target_t).fixed

\* arity.accepts(args.len())
ArityAccepted(target_t, n) == accepts(get_arity(target_t), n)

\* the required types without the vararg type for the further arguments
RequiredArgsFixedOnly(c, n) == c.arguments

\* the parameter types the arguments of a call are held against
RequiredArgs(c, n) ==
    IF c.vararg # <<>>
    THEN c.arguments \o [i \in 1..(n - Len(c.arguments)) |-> c.vararg[1]]
    ELSE c.arguments

\* req_args.iter().zip(args.iter()).try_for_each(check_expectation)
FirstMismatch(req, args) ==
    LET n == IF Len(req) < Len(args) THEN Len(req) ELSE Len(args)
        bad == {i \in 1..n : ~Type_le(args[i], req[i])}
    IN IF bad = {} THEN 0 ELSE CHOOSE i \in bad : \A j \in bad : i <= j

visit_call_expr(target_t, args) ==
    IF is_unspecified(target_t) THEN TypeOk(TypeDefault)
    ELSE IF ~get_arity(target_t).some
         THEN TypeErr(at(OperationUnsupported(target_t)))
    ELSE IF ~ArityAccepted(target_t, Len(args))
         THEN TypeErr(at(ArityMismatch(get_arity(target_t), Len(args))))
    ELSE IF target_t.kind = "Union" THEN TypeOk(TypeDefault)
    ELSE LET req == RequiredArgs(target_t, Len(args))
             i == FirstMismatch(req, args)
         IN IF i = 0
            THEN TypeOk(target_t.return_type)
            ELSE check_expectation(args[i], req[i])

(***************************************************************************)
(* Declarations and statements.  A declaration is a `var` with or without  *)
(* a type annotation, or a parameterless `def` with or without a return    *)
(* annotation; NoType stands for a missing annotation.  The type map holds *)
(* for each definition its declaration and the type recorded for it.       *)
(***************************************************************************)
AnnotTypes == {TypeInt}
\* the names a type-checked program declares
TypeNames == {"a"}
TypeDecl == [fn : BOOLEAN, annot : AnnotTypes \cup {NoType}]

\* Type::build_function
build_function(arguments, vararg, return_type) ==
    [kind |-> "Callable", arguments |-> arguments, vararg |-> vararg,
     return_type |-> return_type]

\* lookup_type_of, and lookup_type of the mention of a known type
lookup_type_of(annot) == IF annot = NoType THEN TypeUnspecified ELSE annot

\* the type perform_block_predef records for a declaration
PredefType(d) ==
    IF d.fn
    THEN build_function(<<>>, <<>>, IF d.annot = NoType THEN TypeUnspecified ELSE d.annot)
    ELSE IF d.annot # NoType THEN d.annot ELSE TypeUnspecified

\* perform_block_predef: decls maps the names a block declares to their
\* declarations
perform_block_predef(tm, decls) ==
    [n \in (DOMAIN tm) \cup (DOMAIN decls) |->
        IF n \in DOMAIN decls
        THEN [fn |-> decls[n].fn, annot |-> decls[n].annot, type |-> PredefType(decls[n])]
        ELSE tm[n]]

\* the definition type with the recorded type left unread
definition_type_unrecorded(tm, target) == TypeUnspecified

\* Typemap::type_of the definition the Annotation Store resolves a name to
definition_type(tm, target) ==
    IF target \in DOMAIN tm THEN tm[target].type ELSE TypeUnspecified

\* rhs is <<>> for a declaration without initializer
visit_var_stmt(annot, rhs) ==
    IF rhs # <<>>
    THEN AndThen(check_expectation(rhs[1], lookup_type_of(annot)), TypeNothing)
    ELSE TypeOk(TypeNothing)

visit_assignment_stmt(tm, target, value) ==
    AndThen(check_expectation(value, definition_type(tm, target)), TypeNothing)

\* the declaration visited with its body held against nothing
visit_function_declaration_statement_unchecked(returns, provided_return) ==
    TypeOk(TypeNothing)

\* the expected type is the declared return type, or unwrap_or_default()
visit_function_declaration_statement(returns, provided_return) ==
    AndThen(check_expectation(provided_return,
                              IF returns # NoType THEN returns ELSE TypeDefault),
            TypeNothing)

(***************************************************************************)
(* The type checker's walk.  type_stack holds the types of the visited     *)
(* subexpressions that wait for their parent, type_frames the constructs   *)
(* the visitor is inside of, type_node the node whose visit returned last. *)
(***************************************************************************)
TFrame(kind, base, pending, returns) ==
    [kind |-> kind, base |-> base, stmts |-> 0, pending |-> pending,
     returns |-> returns]
Node(kind, op, operands) == [kind |-> kind, op |-> op, operands |-> operands]
NoNode == Node("", "", <<>>)
\* Result<Typemap, TypeError> of Checker::typecheck
NoTypecheckResult == [tag |-> "None", type_map |-> <<>>, err |-> NoTypeError]
TypecheckOk(tm) == [NoTypecheckResult EXCEPT !.tag = "Ok", !.type_map = tm]
TypecheckErr(e) == [NoTypecheckResult EXCEPT !.tag = "Err", !.err = e]

(***************************************************************************)
(* The visitor's position in the tree.                                     *)
(***************************************************************************)
Frame(kind, tok, pending, fname) ==
    [kind |-> kind, tok |-> tok, pending |-> pending, fname |-> fname]

Top == Last(frames)
InBody == pc = "body" /\ frames # <<>>
\* which of the two passes is walking the program
Checking == checker.names # <<>>
Annotating == annotator.scopes # <<>>
CBody == InBody /\ Checking
ABody == InBody /\ Annotating
CanOpen == nextTok < MaxTok

Init ==
    /\ pc = "start"
    /\ frames = <<>>
    /\ nextTok = ProgramTok + 1
    /\ declared = 0
    /\ checker = CheckerNew
    /\ check_result = NoResult
    /\ annotator = AnnotationGeneratorNew
    /\ annot_result = NoResult
    /\ type_stack = <<>>
    /\ type_result = NoTypeResult
    /\ type_frames = <<>>
    /\ type_map = EmptyMap
    /\ type_node = NoNode
    /\ visited = 0
    /\ typecheck_result = NoTypecheckResult

\* one step of the walk: the visitor goes on with `fr` unless the pass failed
Walk(failed, fr, tok, n) ==
    IF failed
    THEN pc' = "done" /\ UNCHANGED <<frames, nextTok, declared>>
    ELSE /\ frames' = fr
         /\ nextTok' = tok
         /\ declared' = declared + n
         /\ pc' = IF fr = <<>> THEN "done" ELSE "body"

(***************************************************************************)
(* The pass of syntax_level_check.rs                                       *)
(***************************************************************************)
CStep(c, fr, tok, n) ==
    /\ checker' = c
    /\ check_result' = C_ret(c, fr = <<>>)
    /\ Walk(c.err # NoErr, fr, tok, n)
    /\ UNCHANGED <<annotVars, typeVars>>

CCheck ==
    /\ pc = "start"
    /\ checker' = C_check(checker)
    /\ pc' = "root"
    /\ UNCHANGED <<frames, nextTok, declared, check_result, annotVars, typeVars>>

CVisitProgram ==
    /\ pc = "root" /\ Checking
    /\ \E decls \in DeclLists :
          CStep(C_visit_block(checker, ProgramTok, decls),
                <<Frame("Block", ProgramTok, decls, "")>>, nextTok, Len(decls))

CVisitBlock ==
    /\ CBody /\ CanOpen
    /\ \E decls \in DeclLists :
          CStep(C_visit_block(checker, nextTok, decls),
                Append(frames, Frame("Block", nextTok, decls, "")), nextTok + 1,
                Len(decls))

\* a reference to the name n: lookup_local(n)
CRefers(n) ==
    /\ CBody
    /\ CStep(C_lookup_local(checker, n), frames, nextTok, 0)

\* visit_expr, Expr::Name
CVisitName == \E n \in Names : CRefers(n)

\* visit_stmt, Stmt::Assignment: the target is looked up, the value is visited next
CVisitAssignment == \E n \in Names : CRefers(n)

CVisitVarDeclaration ==
    /\ CBody /\ Top.kind = "Block" /\ Top.pending # <<>>
    /\ ~Head(Top.pending).fn
    /\ CStep(C_define_name(checker, Head(Top.pending).name),
             [frames EXCEPT ![Len(frames)].pending = Tail(@)], nextTok, 0)

CVisitFunctionDeclaration ==
    /\ CBody /\ CanOpen /\ Top.kind = "Block" /\ Top.pending # <<>>
    /\ Head(Top.pending).fn
    /\ \E args \in ArgLists :
          LET name == Head(Top.pending).name
          IN CStep(C_check_function(checker, nextTok, name, args),
                   Append([frames EXCEPT ![Len(frames)].pending = Tail(@)],
                          Frame("Function", nextTok, <<>>, name)),
                   nextTok + 1, Len(args))

CFunctionDone ==
    /\ CBody /\ Top.kind = "Function"
    /\ CStep(C_function_done(checker, Top.fname), Front(frames), nextTok, 0)

CBlockDone ==
    /\ CBody /\ Top.kind = "Block" /\ Top.pending = <<>>
    /\ CStep(C_pop_scope(checker), Front(frames), nextTok, 0)

NextCheck ==
    \/ CCheck
    \/ CVisitProgram
    \/ CVisitBlock
    \/ CVisitName
    \/ CVisitAssignment
    \/ CVisitVarDeclaration
    \/ CVisitFunctionDeclaration
    \/ CFunctionDone
    \/ CBlockDone

SpecCheck == Init /\ [][NextCheck]_vars

(***************************************************************************)
(* The pass of variable_annotation_generation.rs                           *)
(***************************************************************************)
AStep(a, fr, tok, n) ==
    /\ annotator' = a
    /\ annot_result' = A_ret(a, fr = <<>>)
    /\ Walk(a.err # NoErr, fr, tok, n)
    /\ UNCHANGED <<checkVars, typeVars>>

AGenerate ==
    /\ pc = "start"
    /\ annotator' = A_generate_annotations(annotator)
    /\ pc' = "root"
    /\ UNCHANGED <<frames, nextTok, declared, annot_result, checkVars, typeVars>>

AVisitProgram ==
    /\ pc = "root" /\ Annotating
    /\ \E decls \in DeclLists :
          AStep(A_visit_block(annotator, ProgramTok, decls),
                <<Frame("Block", ProgramTok, decls, "")>>, nextTok, Len(decls))

AVisitBlock ==
    /\ ABody /\ CanOpen
    /\ \E decls \in DeclLists :
          AStep(A_visit_block(annotator, nextTok, decls),
                Append(frames, Frame("Block", nextTok, decls, "")), nextTok + 1,
                Len(decls))

\* a reference to the name n: lookup_name(n)
ARefers(n) ==
    /\ ABody
    /\ AStep(A_lookup_name(annotator, n), frames, nextTok, 0)

\* visit_variable_expr
AVisitVariable == \E n \in Names : ARefers(n)

AVisitVarStmt ==
    /\ ABody /\ Top.kind = "Block" /\ Top.pending # <<>>
    /\ ~Head(Top.pending).fn
    /\ AStep(A_define_name(annotator, Head(Top.pending).name),
             [frames EXCEPT ![Len(frames)].pending = Tail(@)], nextTok, 0)

AVisitFunctionDeclaration ==
    /\ ABody /\ CanOpen /\ Top.kind = "Block" /\ Top.pending # <<>>
    /\ Head(Top.pending).fn
    /\ \E args \in ArgLists :
          LET name == Head(Top.pending).name
          IN AStep(A_visit_function_declaration_statement(annotator, nextTok,
                                                          name, args),
                   Append([frames EXCEPT ![Len(frames)].pending = Tail(@)],
                          Frame("Function", nextTok, <<>>, name)),
                   nextTok + 1, Len(args))

AVisitAnonFunction ==
    /\ ABody /\ CanOpen /\ declared < MaxDecls
    /\ \E args \in SeqsUpTo(Names, MaxDecls - declared - 1) :
          AStep(A_visit_anon_function_expr(annotator, nextTok, args),
                Append(frames, Frame("Function", nextTok, <<>>, "")),
                nextTok + 1, 1 + Len(args))

AFunctionDone ==
    /\ ABody /\ Top.kind = "Function"
    /\ AStep(A_pop_scope(annotator), Front(frames), nextTok, 0)

ABlockDone ==
    /\ ABody /\ Top.kind = "Block" /\ Top.pending = <<>>
    /\ AStep(A_pop_scope(annotator), Front(frames), nextTok, 0)

NextAnnot ==
    \/ AGenerate
    \/ AVisitProgram
    \/ AVisitBlock
    \/ AVisitVariable
    \/ AVisitVarStmt
    \/ AVisitFunctionDeclaration
    \/ AVisitAnonFunction
    \/ AFunctionDone
    \/ ABlockDone

SpecAnnot == Init /\ [][NextAnnot]_vars

(***************************************************************************)
(* The pass of typechecker.rs over an expression, operands first: every    *)
(* visited sub-expression leaves its type for the expression it belongs    *)
(* to; the first error ends the pass.                                      *)
(***************************************************************************)
\* the pass is running: typecheck has started and no visit has failed
TChecking == type_frames # <<>> /\ type_result.tag \notin {"Err", "Panic"}
TTop == Last(type_frames)
\* the types of the subexpressions visited so far of the construct at hand
Operands == Len(type_stack) - TTop.base
\* the visitor is between two statements of a block or of the program
InStatements == TChecking /\ TTop.kind \in {"Program", "Block"}
CanVisit == TChecking /\ visited < MaxNodes
TopType == Last(type_stack)
\* the stack with the operands of the construct at hand replaced by its type
Reduced(n, t) == Append(SubSeq(type_stack, 1, Len(type_stack) - n), t)
\* the declarations a block can make: names not declared so far, as many as
\* the program still has room for
TypeDeclMaps(n) ==
    UNION {[S -> TypeDecl] :
              S \in {T \in SUBSET (TypeNames \ DOMAIN type_map) : Cardinality(T) <= n}}

\* a visit returns r; on Ok the walk goes on with stack st, frames fr and
\* type map tm, otherwise typecheck returns the error at once (or panics)
TStep(r, st, fr, tm, node, n) ==
    /\ type_result' = r
    /\ type_node' = node
    /\ visited' = visited + n
    /\ IF r.tag \in {"Err", "Panic"}
       THEN /\ UNCHANGED <<type_stack, type_frames, type_map>>
            /\ typecheck_result' =
                  IF r.tag = "Err" THEN TypecheckErr(r.err) ELSE typecheck_result
       ELSE /\ type_stack' = st
            /\ type_frames' = fr
            /\ type_map' = tm
            /\ UNCHANGED typecheck_result
    /\ UNCHANGED resolverVars

\* Checker::typecheck: Checker::new and the pre-declaration of the program
TTypecheck ==
    /\ type_frames = <<>> /\ typecheck_result.tag = "None"
    /\ \E decls \in TypeDeclMaps(MaxNodes - visited) :
          TStep(type_result, type_stack,
                <<TFrame("Program", 0, DOMAIN decls, NoType)>>,
                perform_block_predef(type_map, decls),
                Node("Program", "", <<>>), Cardinality(DOMAIN decls))

\* visit_bool_expr, visit_number_expr, visit_float_number_expr,
\* visit_string_expr, visit_variable_expr
TVisitLeaf ==
    /\ CanVisit /\ Len(type_stack) < MaxOperands
    /\ \E t \in LeafTypes :
          TStep(TypeOk(t), Append(type_stack, t), type_frames, type_map,
                Node("Leaf", "", <<>>), 1)

TVisitBinary ==
    /\ CanVisit /\ Operands >= 2
    /\ \E op \in BinaryOps :
          LET left == type_stack[Len(type_stack) - 1]
              right == type_stack[Len(type_stack)]
              r == visit_binary_expr(op, left, right)
          IN TStep(r, Reduced(2, r.type), type_frames, type_map,
                   Node("Binary", op, <<left, right>>), 1)

TVisitUnary ==
    /\ CanVisit /\ Operands >= 1
    /\ \E op \in UnaryOps :
          LET r == visit_unary_expr(op, TopType)
          IN TStep(r, Reduced(1, r.type), type_frames, type_map,
                   Node("Unary", op, <<TopType>>), 1)

\* visit_cond_expr: the condition has been visited and is checked
TCondCondition ==
    /\ CanVisit /\ Operands >= 1
    /\ TStep(visit_cond_expr_condition(TopType), Front(type_stack),
             Append(type_frames, TFrame("If", Len(type_stack) - 1, {}, NoType)),
             type_map, Node("Condition", "", <<TopType>>), 1)

\* visit_cond_expr: the branches have been visited
TVisitCond ==
    /\ TChecking /\ TTop.kind = "If" /\ Operands \in {1, 2}
    /\ LET left == type_stack[TTop.base + 1]
           right == IF Operands = 2 THEN <<type_stack[TTop.base + 2]>> ELSE <<>>
           r == visit_cond_expr(left, right)
       IN TStep(r, Reduced(Operands, r.type), Front(type_frames), type_map,
                Node("Cond", "", <<left>> \o right), 0)

TVisitCall ==
    /\ CanVisit /\ Operands >= 1
    /\ \E k \in 0..(Operands - 1) :
          LET target_t == type_stack[Len(type_stack) - k]
              args == SubSeq(type_stack, Len(type_stack) - k + 1, Len(type_stack))
              r == visit_call_expr(target_t, args)
          IN TStep(r, Reduced(k + 1, r.type), type_frames, type_map,
                   Node("Call", "", <<target_t>> \o args), 1)

\* visit_block: the pre-declaration of the block's statements
TEnterBlock ==
    /\ CanVisit
    /\ \E decls \in TypeDeclMaps(MaxNodes - visited - 1) :
          TStep(type_result, type_stack,
                Append(type_frames, TFrame("Block", Len(type_stack), DOMAIN decls, NoType)),
                perform_block_predef(type_map, decls),
                Node("Predef", "", <<>>), 1 + Cardinality(DOMAIN decls))

\* `for stmt in rest`, `for stmt in program`: the statement's type is dropped
TNextStmt ==
    /\ InStatements /\ Operands = 1
    /\ type_stack' = Front(type_stack)
    /\ type_frames' = [type_frames EXCEPT ![Len(type_frames)].stmts = @ + 1]
    /\ UNCHANGED <<type_result, type_map, type_node, visited, typecheck_result>>
    /\ UNCHANGED resolverVars

\* visit_block: split_last().unwrap() and the type of the last statement
TVisitBlock ==
    /\ TChecking /\ TTop.kind = "Block" /\ TTop.pending = {}
    /\ \/ /\ Operands = 1
          /\ TStep(TypeOk(TopType), type_stack, Front(type_frames), type_map,
                   Node("Block", "", <<TopType>>), 0)
       \/ /\ Operands = 0 /\ TTop.stmts = 0
          /\ TStep(TypePanic, type_stack, type_frames, type_map,
                   Node("Block", "", <<>>), 0)

TVisitVarStmt ==
    /\ InStatements /\ Operands \in {0, 1}
    /\ \E n \in TTop.pending :
          /\ ~type_map[n].fn
          /\ LET rhs == IF Operands = 1 THEN <<TopType>> ELSE <<>>
                 r == visit_var_stmt(type_map[n].annot, rhs)
             IN TStep(r, Reduced(Operands, r.type),
                      [type_frames EXCEPT ![Len(type_frames)].pending = @ \ {n}],
                      type_map, Node("Var", n, rhs), 0)

TVisitAssignment ==
    /\ CanVisit /\ InStatements /\ Operands = 1
    /\ \E target \in Names :
          LET r == visit_assignment_stmt(type_map, target, TopType)
          IN TStep(r, Reduced(1, r.type), type_frames, type_map,
                   Node("Assignment", target, <<TopType>>), 1)

\* visit_function_declaration_statement up to the visit of the body
TEnterFunction ==
    /\ InStatements /\ Operands = 0
    /\ \E n \in TTop.pending :
          /\ type_map[n].fn
          /\ TStep(type_result, type_stack,
                   Append([type_frames EXCEPT ![Len(type_frames)].pending = @ \ {n}],
                          TFrame("Def", Len(type_stack), {}, type_map[n].annot)),
                   type_map, Node("Def", n, <<>>), 0)

\* visit_function_declaration_statement: the body has been visited
TVisitFunctionDeclaration ==
    /\ TChecking /\ TTop.kind = "Def" /\ Operands = 1
    /\ LET r == visit_function_declaration_statement(TTop.returns, TopType)
       IN TStep(r, Reduced(1, r.type), Front(type_frames), type_map,
                Node("Function", "", <<TopType>>), 0)

\* Checker::typecheck: every statement has been visited
TTypecheckDone ==
    /\ TChecking /\ TTop.kind = "Program" /\ Operands = 0 /\ TTop.pending = {}
    /\ type_frames' = <<>>
    /\ typecheck_result' = TypecheckOk(type_map)
    /\ UNCHANGED <<type_stack, type_result, type_map, type_node, visited>>
    /\ UNCHANGED resolverVars

NextTypes ==
    \/ TTypecheck \/ TVisitLeaf \/ TVisitBinary \/ TVisitUnary
    \/ TCondCondition \/ TVisitCond \/ TVisitCall
    \/ TEnterBlock \/ TNextStmt \/ TVisitBlock
    \/ TVisitVarStmt \/ TVisitAssignment
    \/ TEnterFunction \/ TVisitFunctionDeclaration
    \/ TTypecheckDone

SpecTypes == Init /\ [][NextTypes]_vars

(***************************************************************************)
(* Both passes over one and the same program: every element of the program *)
(* is visited by check and by generate_annotations.  The run ends when     *)
(* check rejects the program.                                              *)
(***************************************************************************)
BStep(c, a, fr, tok, n) ==
    /\ checker' = c
    /\ check_result' = C_ret(c, fr = <<>>)
    /\ annotator' = a
    /\ annot_result' = A_ret(a, fr = <<>> /\ c.err = NoErr)
    /\ Walk(c.err # NoErr, fr, tok, n)
    /\ UNCHANGED typeVars

BBody == InBody /\ Checking /\ Annotating

BStart ==
    /\ pc = "start"
    /\ checker' = C_check(checker)
    /\ annotator' = A_generate_annotations(annotator)
    /\ pc' = "root"
    /\ UNCHANGED <<frames, nextTok, declared, check_result, annot_result, typeVars>>

BVisitProgram ==
    /\ pc = "root" /\ Checking /\ Annotating
    /\ \E decls \in DeclLists :
          BStep(C_visit_block(checker, ProgramTok, decls),
                A_visit_block(annotator, ProgramTok, decls),
                <<Frame("Block", ProgramTok, decls, "")>>, nextTok, Len(decls))

BVisitBlock ==
    /\ BBody /\ CanOpen
    /\ \E decls \in DeclLists :
          BStep(C_visit_block(checker, nextTok, decls),
                A_visit_block(annotator, nextTok, decls),
                Append(frames, Frame("Block", nextTok, decls, "")), nextTok + 1,
                Len(decls))

\* a reference to the name n: lookup_local(n) and lookup_name(n)
BVisitName ==
    /\ BBody
    /\ \E n \in Names :
          BStep(C_lookup_local(checker, n), A_lookup_name(annotator, n),
                frames, nextTok, 0)

BVisitVarDeclaration ==
    /\ BBody /\ Top.kind = "Block" /\ Top.pending # <<>>
    /\ ~Head(Top.pending).fn
    /\ BStep(C_define_name(checker, Head(Top.pending).name),
             A_define_name(annotator, Head(Top.pending).name),
             [frames EXCEPT ![Len(frames)].pending = Tail(@)], nextTok, 0)

BVisitFunctionDeclaration ==
    /\ BBody /\ CanOpen /\ Top.kind = "Block" /\ Top.pending # <<>>
    /\ Head(Top.pending).fn
    /\ \E args \in ArgLists :
          LET name == Head(Top.pending).name
          IN BStep(C_check_function(checker, nextTok, name, args),
                   A_visit_function_declaration_statement(annotator, nextTok,
                                                          name, args),
                   Append([frames EXCEPT ![Len(frames)].pending = Tail(@)],
                          Frame("Function", nextTok, <<>>, name)),
                   nextTok + 1, Len(args))

BFunctionDone ==
    /\ BBody /\ Top.kind = "Function"
    /\ BStep(C_function_done(checker, Top.fname), A_pop_scope(annotator),
             Front(frames), nextTok, 0)

BBlockDone ==
    /\ BBody /\ Top.kind = "Block" /\ Top.pending = <<>>
    /\ BStep(C_pop_scope(checker), A_pop_scope(annotator), Front(frames),
             nextTok, 0)

NextBoth ==
    \/ BStart
    \/ BVisitProgram
    \/ BVisitBlock
    \/ BVisitName
    \/ BVisitVarDeclaration
    \/ BVisitFunctionDeclaration
    \/ BFunctionDone
    \/ BBlockDone

SpecBoth == Init /\ [][NextBoth]_vars

\* a resolver pass of either variant over a program
Next == NextCheck \/ NextAnnot

Spec == Init /\ [][Next]_vars

(***************************************************************************)
(* What a reference means, read off the scope stack alone.                 *)
(***************************************************************************)
Toks == 0..MaxTok

Class(table, t, n) ==
    IF t \in DOMAIN table /\ n \in DOMAIN table[t] THEN table[t][n] ELSE "None"
IsBoxed(table, t, n) == Class(table, t, n) = "Boxed"
BoxedSet(table) == {e \in Toks \X Names : IsBoxed(table, e[1], e[2])}
ClosureOf(table, t) == IF t \in DOMAIN table THEN table[t] ELSE {}

\* the innermost scope of the stack that declares n (0: no scope does)
DeclIdx(st, n) ==
    LET S == {i \in 1..Len(st) : n \in DOMAIN st[i].map}
    IN IF S = {} THEN 0 ELSE CHOOSE i \in S : \A j \in S : j <= i
\* the function scopes between a reference at the top of the stack and scope i
FunctionsBetween(st, i) == {j \in (i + 1)..Len(st) : st[j].type = "Function"}
Undeclared(st, n) == DeclIdx(st, n) = 0
DeclaredUninit(st, n) == DeclIdx(st, n) # 0 /\ ~st[DeclIdx(st, n)].map[n]
\* the reference is separated from the declaration by a function boundary
Captures(st, n) ==
    DeclIdx(st, n) # 0 /\ FunctionsBetween(st, DeclIdx(st, n)) # {}
DeclTok(st, n) == st[DeclIdx(st, n)].tok
CaptureToks(st, n) ==
    IF DeclIdx(st, n) = 0
    THEN {}
    ELSE {st[j].tok : j \in FunctionsBetween(st, DeclIdx(st, n))}
BoxedBy(st, n) == IF Captures(st, n) THEN {<<DeclTok(st, n), n>>} ELSE {}
HasDup(seq) == \E i, j \in 1..Len(seq) : i # j /\ seq[i] = seq[j]
DeclNames(decls) == [i \in 1..Len(decls) |-> decls[i].name]
Range(seq) == {seq[i] : i \in 1..Len(seq)}
OnStack(st, t) == \E i \in 1..Len(st) : st[i].tok = t

(***************************************************************************)
(* C1.  In every state of a pass, a reference to a name n makes Boxed      *)
(* exactly the entry of the declaration it resolves to across a function   *)
(* boundary, and no other entry: the Boxed entries after the reference are *)
(* those before it plus the captured declaration (either variant).         *)
(***************************************************************************)
C1_BoxedIffCaptured ==
    \A n \in Names :
       /\ CBody =>
            BoxedSet(C_lookup_local(checker, n).variable_types)
               = BoxedSet(checker.variable_types) \cup BoxedBy(checker.names, n)
       /\ ABody =>
            BoxedSet(A_lookup_name(annotator, n).block_scopes)
               = BoxedSet(annotator.block_scopes) \cup BoxedBy(annotator.scopes, n)

(***************************************************************************)
(* C2.  A reference to n adds n to the closure set of exactly the function *)
(* scopes between the reference and the declaring scope, and to no other   *)
(* closure set; a reference resolved without crossing a function boundary  *)
(* (or not resolved at all) changes no closure set (either variant).       *)
(***************************************************************************)
C2_ClosureSets ==
    \A n \in Names :
       /\ CBody =>
            LET after == C_lookup_local(checker, n).closed_names
                caps == CaptureToks(checker.names, n)
            IN \A t \in Toks :
                  ClosureOf(after, t)
                     = ClosureOf(checker.closed_names, t)
                         \cup (IF t \in caps THEN {n} ELSE {})
       /\ ABody =>
            LET after == A_lookup_name(annotator, n).closure_scopes
                caps == CaptureToks(annotator.scopes, n)
            IN \A t \in Toks :
                  ClosureOf(after, t)
                     = ClosureOf(annotator.closure_scopes, t)
                         \cup (IF t \in caps THEN {n} ELSE {})

\* a name is in the closure set of two functions that are both still open:
\* the inner one and an intermediate one
C2_Witness ==
    \E n \in Names, t1, t2 \in Toks :
       /\ t1 # t2
       /\ OnStack(checker.names, t1) /\ OnStack(checker.names, t2)
       /\ n \in ClosureOf(checker.closed_names, t1)
       /\ n \in ClosureOf(checker.closed_names, t2)

(***************************************************************************)
(* C3.  Capture monotonicity: no step of a pass (push, pop, declare,       *)
(* define, lookup) takes a Boxed entry back to Normal or removes it.       *)
(***************************************************************************)
C3_Monotonic ==
    [][\A t \in Toks, n \in Names :
          /\ IsBoxed(checker.variable_types, t, n)
                => IsBoxed(checker'.variable_types, t, n)
          /\ IsBoxed(annotator.block_scopes, t, n)
                => IsBoxed(annotator'.block_scopes, t, n)]_vars

\* a pass has ended and returned a store with a Boxed entry
C3_Witness ==
    \/ check_result.tag = "Ok" /\ BoxedSet(check_result.variable_types) # {}
    \/ annot_result.tag = "Ok" /\ BoxedSet(annot_result.variable_types) # {}

C5_ForwardReference ==
    \A n \in Names :
       CBody /\ DeclaredUninit(checker.names, n) =>
          LET c == C_lookup_local(checker, n)
          IN IF FunctionsBetween(checker.names, DeclIdx(checker.names, n)) = {}
             THEN c.err = [kind |-> "UseBeforeDefinition", name |-> n]
             ELSE /\ c.err = NoErr
                  /\ IsBoxed(c.variable_types, DeclTok(checker.names, n), n)
                  /\ n \in c.closed_names[Last(checker.current_function)]

\* a name that is still uninitialized in its open scope has been captured
C5_Witness ==
    /\ checker.err = NoErr
    /\ \E n \in Names :
          /\ DeclaredUninit(checker.names, n)
          /\ Captures(checker.names, n)
          /\ IsBoxed(checker.variable_types, DeclTok(checker.names, n), n)

ProgramScopes(st) == {i \in 1..Len(st) : st[i].tok = ProgramTok}

C7_OneProgramScope ==
    /\ Cardinality(ProgramScopes(checker.names)) <= 1
    /\ Cardinality(ProgramScopes(annotator.scopes)) <= 1

(***************************************************************************)
(* C8.  Shadowing: entering a block records its declarations as Normal     *)
(* entries under the block's own token and changes no entry under another  *)
(* token; a reference to n changes no entry but that of the innermost      *)
(* scope declaring n, and when it is a capture that entry becomes Boxed    *)
(* (either variant).                                                       *)
(***************************************************************************)
SameBut(table1, table2, t0, n0) ==
    \A t \in Toks, n \in Names :
       <<t, n>> # <<t0, n0>> => Class(table1, t, n) = Class(table2, t, n)

C8_Shadowing ==
    /\ CBody =>
          /\ \A n \in Names :
                LET c == C_lookup_local(checker, n)
                    d == DeclIdx(checker.names, n)
                IN /\ d = 0 => c.variable_types = checker.variable_types
                   /\ d # 0 =>
                        /\ SameBut(c.variable_types, checker.variable_types,
                                   checker.names[d].tok, n)
                        /\ Captures(checker.names, n) =>
                              IsBoxed(c.variable_types, checker.names[d].tok, n)
          /\ CanOpen =>
                \A decls \in DeclLists :
                   LET c == C_visit_block(checker, nextTok, decls)
                   IN c.err = NoErr =>
                        \A t \in Toks, n \in Names :
                           Class(c.variable_types, t, n) =
                              IF t = nextTok
                              THEN IF n \in Range(DeclNames(decls))
                                   THEN "Normal" ELSE "None"
                              ELSE Class(checker.variable_types, t, n)
    /\ ABody =>
          /\ \A n \in Names :
                LET a == A_lookup_name(annotator, n)
                    d == DeclIdx(annotator.scopes, n)
                IN /\ d = 0 => a.block_scopes = annotator.block_scopes
                   /\ d # 0 =>
                        /\ SameBut(a.block_scopes, annotator.block_scopes,
                                   annotator.scopes[d].tok, n)
                        /\ Captures(annotator.scopes, n) =>
                              IsBoxed(a.block_scopes, annotator.scopes[d].tok, n)
          /\ CanOpen =>
                \A decls \in DeclLists :
                   LET a == A_visit_block(annotator, nextTok, decls)
                   IN \A t \in Toks, n \in Names :
                         Class(a.block_scopes, t, n) =
                            IF t = nextTok
                            THEN IF n \in Range(DeclNames(decls))
                                 THEN "Normal" ELSE "None"
                            ELSE Class(annotator.block_scopes, t, n)

\* two open scopes declare the same name; the inner entry is Boxed, the
\* outer one still Normal
C8_Witness ==
    \E n \in Names, i, j \in 1..Len(checker.names) :
       /\ i < j
       /\ n \in DOMAIN checker.names[i].map
       /\ n \in DOMAIN checker.names[j].map
       /\ Class(checker.variable_types, checker.names[i].tok, n) = "Normal"
       /\ IsBoxed(checker.variable_types, checker.names[j].tok, n)

(***************************************************************************)
(* The operands of the binary expression the type checker visits next.     *)
(***************************************************************************)
HasOperands == TChecking /\ Operands >= 2
LeftOperand == type_stack[Len(type_stack) - 1]
RightOperand == type_stack[Len(type_stack)]
ArithmeticOps == {"Plus", "Minus", "Star", "Slash", "Power"}
UnionIntFloat == [kind |-> "Union", members |-> {TypeInt, TypeFloat}]
FirstOffending(l, r) == IF ~IsNumber(l) THEN l ELSE r
IsMismatch(res, expected, got) ==
    /\ res.tag = "Err"
    /\ res.err.kind = "TypeMismatch"
    /\ res.err.expected = expected
    /\ res.err.got = got

(***************************************************************************)
(* C9 as stated: for + - * / ^ two operands out of Int and Float give Int  *)
(* when both are Int and Float otherwise, Int mod Int gives Int, and any   *)
(* operand that is neither Int nor Float (String + String apart) fails     *)
(* with TypeMismatch, expected Int|Float, got the first such operand.      *)
(***************************************************************************)
C9_NumericPromotion ==
    HasOperands =>
       LET l == LeftOperand
           r == RightOperand
       IN /\ \A op \in ArithmeticOps :
                LET res == visit_binary_expr(op, l, r)
                IN IF IsNumber(l) /\ IsNumber(r)
                   THEN res = TypeOk(IF l = TypeInt /\ r = TypeInt
                                     THEN TypeInt ELSE TypeFloat)
                   ELSE IF op = "Plus" /\ l = TypeString /\ r = TypeString
                        THEN TRUE
                        ELSE IsMismatch(res, UnionIntFloat, FirstOffending(l, r))
          /\ l = TypeInt /\ r = TypeInt =>
                visit_binary_expr("Mod", l, r) = TypeOk(TypeInt)

(***************************************************************************)
(* C9 amended: as stated, for operands neither of which is Unspecified;    *)
(* with an Unspecified operand the expression checks and is Unspecified.   *)
(***************************************************************************)
C9_NumericPromotionKnownTypes ==
    HasOperands =>
       LET l == LeftOperand
           r == RightOperand
       IN /\ \A op \in ArithmeticOps :
                LET res == visit_binary_expr(op, l, r)
                IN IF IsNumber(l) /\ IsNumber(r)
                   THEN res = TypeOk(IF l = TypeInt /\ r = TypeInt
                                     THEN TypeInt ELSE TypeFloat)
                   ELSE IF is_unspecified(l) \/ is_unspecified(r)
                        THEN res = TypeOk(TypeUnspecified)
                        ELSE IF op = "Plus" /\ l = TypeString /\ r = TypeString
                             THEN TRUE
                             ELSE IsMismatch(res, UnionIntFloat, FirstOffending(l, r))
          /\ l = TypeInt /\ r = TypeInt =>
                visit_binary_expr("Mod", l, r) = TypeOk(TypeInt)

\* an arithmetic expression has failed on its right operand, the left one
\* being a number
C9_Witness ==
    /\ type_result.tag = "Err"
    /\ type_result.err.kind = "TypeMismatch"
    /\ Len(type_stack) >= 2
    /\ IsNumber(LeftOperand)
    /\ type_result.err.got = RightOperand

(***************************************************************************)
(* C10 as stated: a mod expression type-checks exactly when both operands  *)
(* are Int, then to Int, and fails for every other pair of operand types.  *)
(***************************************************************************)
C10_ModOnlyInts ==
    HasOperands =>
       LET res == visit_binary_expr("Mod", LeftOperand, RightOperand)
       IN IF LeftOperand = TypeInt /\ RightOperand = TypeInt
          THEN res = TypeOk(TypeInt)
          ELSE res.tag = "Err"

(***************************************************************************)
(* C10 amended: Int mod Int is Int; a mod expression with an Unspecified   *)
(* operand checks and is Unspecified; every other pair of operand types    *)
(* fails, with the UnspecifiedBinary error naming both types, positioned   *)
(* at the operator.                                                        *)
(***************************************************************************)
C10_ModOnlyIntsOrUnspecified ==
    HasOperands =>
       LET l == LeftOperand
           r == RightOperand
           res == visit_binary_expr("Mod", l, r)
       IN IF l = TypeInt /\ r = TypeInt
          THEN res = TypeOk(TypeInt)
          ELSE IF is_unspecified(l) \/ is_unspecified(r)
               THEN res = TypeOk(TypeUnspecified)
               ELSE /\ res.tag = "Err"
                    /\ res.err.kind = "UnspecifiedBinary"
                    /\ res.err.left = l /\ res.err.right = r
                    /\ res.err.op = "Mod"
                    /\ res.err.localized

\* a mod expression with a Float operand has failed
C10_Witness ==
    /\ type_result.tag = "Err"
    /\ type_result.err.kind = "UnspecifiedBinary"
    /\ type_result.err.op = "Mod"
    /\ TypeFloat \in {type_result.err.left, type_result.err.right}

(***************************************************************************)
(* C11 as stated: gradual escape - for every binary operator, a binary     *)
(* expression with an operand of type Unspecified type-checks and has type *)
(* Unspecified.                                                            *)
(***************************************************************************)
EqualityOps == {"CompareEquals", "CompareNotEquals"}

C11_GradualEscape ==
    HasOperands /\ TypeUnspecified \in {LeftOperand, RightOperand} =>
       \A op \in BinaryOps :
          visit_binary_expr(op, LeftOperand, RightOperand) = TypeOk(TypeUnspecified)

(***************************************************************************)
(* C11 amended: a binary expression with an operand of type Unspecified    *)
(* type-checks for every operator; its type is Bool for == and != and      *)
(* Unspecified for every other operator.                                   *)
(***************************************************************************)
C11_GradualEscapeButEquality ==
    HasOperands /\ TypeUnspecified \in {LeftOperand, RightOperand} =>
       \A op \in BinaryOps :
          visit_binary_expr(op, LeftOperand, RightOperand) =
             IF op \in EqualityOps THEN TypeOk(TypeBool) ELSE TypeOk(TypeUnspecified)

\* an arithmetic expression with a known left and an Unspecified right
\* operand has been typed Unspecified
C11_Witness ==
    /\ type_node.kind = "Binary" /\ type_node.op = "Plus"
    /\ type_node.operands = <<TypeInt, TypeUnspecified>>
    /\ type_result = TypeOk(TypeUnspecified)
    /\ TopType = TypeUnspecified

(***************************************************************************)
(* C12.  A conditional whose condition is accepted as Bool has the union   *)
(* of its branch types as its type, Nothing standing for a missing else;   *)
(* two identical branch types give that type and no union wrapper.  A      *)
(* condition of another known type fails with TypeMismatch, expected Bool, *)
(* positioned at the condition.                                            *)
(***************************************************************************)
InCond == TChecking /\ TTop.kind = "If" /\ Operands \in {1, 2}
ThenType == type_stack[TTop.base + 1]
ElseType == IF Operands = 2 THEN type_stack[TTop.base + 2] ELSE TypeNothing
UnionOf(l, r) ==
    IF l = r THEN l
    ELSE IF r \in Members(l) THEN l
    ELSE IF l \in Members(r) THEN r
    ELSE [kind |-> "Union", members |-> Members(l) \cup Members(r)]

C12_CondUnion ==
    /\ InCond =>
          LET res == visit_cond_expr(ThenType,
                                     IF Operands = 2 THEN <<type_stack[TTop.base + 2]>>
                                     ELSE <<>>)
          IN /\ res = TypeOk(UnionOf(ThenType, ElseType))
             /\ ThenType = ElseType => res.type = ThenType
    /\ TChecking /\ Operands >= 1 =>
          LET res == visit_cond_expr_condition(TopType)
          IN IF TopType \in {TypeBool, TypeUnspecified}
             THEN res.tag = "Ok"
             ELSE TopType.kind # "Union" =>
                     /\ IsMismatch(res, TypeBool, TopType)
                     /\ res.err.localized

\* a conditional with two Int branches has been typed Int
C12_Witness ==
    /\ type_node.kind = "Cond"
    /\ type_node.operands = <<TypeInt, TypeInt>>
    /\ type_result = TypeOk(TypeInt)

(***************************************************************************)
(* The calls the visitor can make next: the callee is the k-th type below  *)
(* the top of the stack, the arguments are the k types above it.           *)
(***************************************************************************)
CallSizes == IF TChecking /\ Operands >= 1 THEN 0..(Operands - 1) ELSE {}
Callee(k) == type_stack[Len(type_stack) - k]
CallArgs(k) == SubSeq(type_stack, Len(type_stack) - k + 1, Len(type_stack))
IsArityMismatch(res, n, vararg, k) ==
    /\ res.tag = "Err"
    /\ res.err.kind = "ArityMismatch"
    /\ res.err.arity = [some |-> TRUE, fixed |-> n, vararg |-> vararg]
    /\ res.err.count = k
    /\ res.err.localized

(***************************************************************************)
(* C13.  Arity enforcement: a call of a Callable with n parameters and no  *)
(* vararg fails with ArityMismatch, carrying the arity and the number of   *)
(* arguments given, for every number of arguments but n; with a vararg it  *)
(* fails so for every number below n and passes the arity check for every  *)
(* number from n on.                                                       *)
(***************************************************************************)
C13_ArityEnforcement ==
    \A k \in CallSizes :
       Callee(k).kind = "Callable" =>
          LET c == Callee(k)
              n == Len(c.arguments)
              res == visit_call_expr(c, CallArgs(k))
          IN IF c.vararg = <<>>
             THEN IF k = n
                  THEN ~(res.tag = "Err" /\ res.err.kind = "ArityMismatch")
                  ELSE IsArityMismatch(res, n, FALSE, k)
             ELSE IF k >= n
                  THEN ~(res.tag = "Err" /\ res.err.kind = "ArityMismatch")
                  ELSE IsArityMismatch(res, n, TRUE, k)

\* a function of one parameter has been called with two arguments
C13_Witness ==
    /\ type_node.kind = "Call"
    /\ type_node.operands[1] = UnaryCallable
    /\ Len(type_node.operands) = 3
    /\ IsArityMismatch(type_result, 1, FALSE, 2)
    /\ typecheck_result.tag = "Err"

(***************************************************************************)
(* C14.  A call of a Callable with an accepted number of arguments holds   *)
(* argument i against parameter i, and every argument past the parameters  *)
(* against the vararg type; it fails with TypeMismatch (expected the       *)
(* parameter's type, got the argument's) at the first argument from the    *)
(* left that does not satisfy its type, and has the declared return type   *)
(* when every argument does.                                               *)
(***************************************************************************)
Satisfies(provided, expected) ==
    \/ expected = TypeUnspecified
    \/ \A m \in Members(provided) : m = expected \/ m = TypeUnspecified
ParamType(c, i) == IF i <= Len(c.arguments) THEN c.arguments[i] ELSE c.vararg[1]

C14_CallArguments ==
    \A k \in CallSizes :
       LET c == Callee(k)
           args == CallArgs(k)
       IN c.kind = "Callable"
          /\ (IF c.vararg = <<>> THEN k = Len(c.arguments) ELSE k >= Len(c.arguments))
          => LET res == visit_call_expr(c, args)
                 bad == {i \in 1..k : ~Satisfies(args[i], ParamType(c, i))}
             IN IF bad = {}
                THEN res = TypeOk(c.return_type)
                ELSE \E i \in bad :
                        /\ \A j \in bad : i <= j
                        /\ IsMismatch(res, ParamType(c, i), args[i])

\* a call has failed on its first argument, the second one - held against
\* the vararg type - being wrong as well
C14_Witness ==
    /\ type_node.kind = "Call"
    /\ type_node.operands = <<VarargCallable, TypeString, TypeInt>>
    /\ IsMismatch(type_result, TypeInt, TypeString)

InDef == TChecking /\ TTop.kind = "Def" /\ Operands = 1

(***************************************************************************)
(* C15 as stated: a function declaration checks the type of its body       *)
(* against the declared return type, and against Nothing when it has no    *)
(* return annotation; it fails with TypeMismatch when the body's type is   *)
(* not accepted.                                                           *)
(***************************************************************************)
C15_ReturnCheck ==
    InDef =>
       LET expected == IF TTop.returns # NoType THEN TTop.returns ELSE TypeNothing
           res == visit_function_declaration_statement(TTop.returns, TopType)
       IN IF Satisfies(TopType, expected)
          THEN res = TypeOk(TypeNothing)
          ELSE IsMismatch(res, expected, TopType)

(***************************************************************************)
(* C15 amended: a function declaration checks the type of its body against *)
(* the declared return type and fails with TypeMismatch when it is not     *)
(* accepted; a declaration without return annotation accepts a body of     *)
(* every type.                                                             *)
(***************************************************************************)
C15_ReturnCheckOrAnyBody ==
    InDef =>
       LET res == visit_function_declaration_statement(TTop.returns, TopType)
       IN IF TTop.returns = NoType
          THEN res = TypeOk(TypeNothing)
          ELSE IF Satisfies(TopType, TTop.returns)
               THEN res = TypeOk(TypeNothing)
               ELSE IsMismatch(res, TTop.returns, TopType)

\* a function without return annotation and with a body of type Int has
\* been type-checked
C15_Witness ==
    /\ type_node.kind = "Function"
    /\ type_node.operands = <<TypeInt>>
    /\ "a" \in DOMAIN type_map /\ type_map["a"].fn /\ type_map["a"].annot = NoType
    /\ type_result = TypeOk(TypeNothing)

DeclaredVariables == {n \in DOMAIN type_map : ~type_map[n].fn}

(***************************************************************************)
(* C16.  The type recorded for a variable's definition is its annotation,  *)
(* or Unspecified without one, in every state of the check: no initializer *)
(* and no assignment narrows it.  An assignment to a variable annotated T   *)
(* is checked against T and fails with TypeMismatch when the value is not  *)
(* accepted; an assignment to an unannotated variable succeeds for a value *)
(* of every type.                                                          *)
(***************************************************************************)
C16_DefinitionTypeFixed ==
    /\ \A n \in DeclaredVariables :
          type_map[n].type =
             IF type_map[n].annot # NoType THEN type_map[n].annot ELSE TypeUnspecified
    /\ TChecking /\ InStatements /\ Operands = 1 =>
          \A target \in DeclaredVariables :
             LET res == visit_assignment_stmt(type_map, target, TopType)
                 annot == type_map[target].annot
             IN IF annot = NoType \/ Satisfies(TopType, annot)
                THEN res = TypeOk(TypeNothing)
                ELSE IsMismatch(res, annot, TopType)

\* a Bool has been assigned to a variable annotated Int
C16_Witness ==
    /\ type_node.kind = "Assignment"
    /\ type_node.op \in DeclaredVariables
    /\ type_map[type_node.op].annot = TypeInt
    /\ type_node.operands = <<TypeBool>>
    /\ IsMismatch(type_result, TypeInt, TypeBool)

(***************************************************************************)
(* C17.  Every type error typecheck returns carries a position: an error   *)
(* raised without one (by the check of a var initializer, an assignment, a *)
(* call argument or a function's return type) is given the position of an  *)
(* enclosing construct before it is returned.                              *)
(***************************************************************************)
C17_ErrorsCarryPosition ==
    typecheck_result.tag = "Err" => typecheck_result.err.localized

(***************************************************************************)
(* C18.  For every tree, typecheck ends in exactly one of two ways: it     *)
(* returns the type map, or it returns the first type error in visit order *)
(* - no node is visited after the error and no type map is returned.       *)
(***************************************************************************)
TypecheckEnded == visited > 0 /\ ~TChecking

C18_MapOrFirstError ==
    TypecheckEnded =>
       \/ /\ typecheck_result.tag = "Ok"
          /\ typecheck_result.type_map = type_map
          /\ type_result.tag = "Ok"
       \/ /\ typecheck_result.tag = "Err"
          /\ typecheck_result.type_map = <<>>
          /\ type_result = TypeErr(typecheck_result.err)

OrderingOps ==
    {"CompareGreater", "CompareGreaterEqual", "CompareLess", "CompareLessEqual"}
Numbers == {TypeInt, TypeFloat}

(***************************************************************************)
(* C19.  == and != have type Bool for every pair of operand types and      *)
(* never fail.  >, >=, < and <= have type Bool when both operands are      *)
(* String or both are numbers (Int or Float, mixed included), and fail     *)
(* with a type error for every other pair of known operand types.          *)
(***************************************************************************)
C19_Comparisons ==
    HasOperands =>
       LET l == LeftOperand
           r == RightOperand
       IN /\ \A op \in EqualityOps : visit_binary_expr(op, l, r) = TypeOk(TypeBool)
          /\ \A op \in OrderingOps :
                LET res == visit_binary_expr(op, l, r)
                IN IF (l = TypeString /\ r = TypeString)
                      \/ (l \in Numbers /\ r \in Numbers)
                   THEN res = TypeOk(TypeBool)
                   ELSE TypeUnspecified \notin {l, r} => res.tag = "Err"

\* a String has been compared with an Int by <=
C19_Witness ==
    /\ type_node.kind = "Binary" /\ type_node.op = "CompareLessEqual"
    /\ type_node.operands = <<TypeString, TypeInt>>
    /\ type_result.tag = "Err"
    /\ type_result.err.localized

(***************************************************************************)
(* References to a function's name.  Scope i of a resolver's stack belongs *)
(* to frame i - 1 of the walk (the program's block has two scopes).        *)
(***************************************************************************)
InnerFn(st) ==
    LET S == {j \in 1..Len(st) : st[j].type = "Function"}
    IN IF S = {} THEN 0 ELSE CHOOSE j \in S : \A k \in S : k <= j
ScopeFname(i) ==
    IF i >= 2 /\ i - 1 <= Len(frames) THEN frames[i - 1].fname ELSE ""
PendingFunction(i, n) ==
    /\ i >= 2 /\ i - 1 <= Len(frames)
    /\ \E k \in 1..Len(frames[i - 1].pending) :
          frames[i - 1].pending[k] = [name |-> n, fn |-> TRUE]

\* a reference to n at the top of st is a reference of function st[j] to its
\* own name
SelfReference(st, n) == InnerFn(st) # 0 /\ ScopeFname(InnerFn(st)) = n
\* n is the name of the open function st[i], referred to from a function
\* nested in its body
NestedReference(st, n, i) ==
    /\ i \in 2..Len(st) /\ st[i].type = "Function" /\ ScopeFname(i) = n
    /\ DeclIdx(st, n) = i /\ InnerFn(st) > i
\* n is a function the block st[i] declares and has not reached yet, referred
\* to from a function declared in the block
SiblingReference(st, n, i) ==
    /\ i \in 2..Len(st) /\ st[i].type = "Block" /\ PendingFunction(i, n)
    /\ DeclIdx(st, n) = i /\ InnerFn(st) > i

\* the reference changes neither the class of n in the block that encloses
\* the function st[j] nor that function's closure set
ResolvedLocally(st, types, closed, types2, closed2, n) ==
    LET j == InnerFn(st)
    IN /\ Class(types2, st[j - 1].tok, n) = Class(types, st[j - 1].tok, n)
       /\ ClosureOf(closed2, st[j].tok) = ClosureOf(closed, st[j].tok)
       /\ BoxedSet(types2) = BoxedSet(types)

C20_SelfOf(st, types, closed, types2, closed2, n) ==
    SelfReference(st, n) => ResolvedLocally(st, types, closed, types2, closed2, n)

\* as stated: the reference from another function boxes the name in the
\* enclosing block's map and adds it to the referring function's closure set
C20_OtherOf(st, types2, closed2, n) ==
    /\ \A i \in 1..Len(st) :
          NestedReference(st, n, i) =>
             /\ IsBoxed(types2, st[i - 1].tok, n)
             /\ n \in ClosureOf(closed2, st[InnerFn(st)].tok)
    /\ \A i \in 1..Len(st) :
          SiblingReference(st, n, i) =>
             /\ IsBoxed(types2, st[i].tok, n)
             /\ n \in ClosureOf(closed2, st[InnerFn(st)].tok)

\* amended: from a function nested in the body the function's own scope
\* entry becomes Boxed and the enclosing block's entry stays as it is
C20_OtherAmendedOf(st, types, closed, types2, closed2, n) ==
    /\ \A i \in 1..Len(st) :
          NestedReference(st, n, i) =>
             /\ IsBoxed(types2, st[i].tok, n)
             /\ Class(types2, st[i - 1].tok, n) = Class(types, st[i - 1].tok, n)
             /\ ClosureOf(closed2, st[i].tok) = ClosureOf(closed, st[i].tok)
             /\ n \in ClosureOf(closed2, st[InnerFn(st)].tok)
    /\ \A i \in 1..Len(st) :
          SiblingReference(st, n, i) =>
             /\ IsBoxed(types2, st[i].tok, n)
             /\ n \in ClosureOf(closed2, st[InnerFn(st)].tok)

(***************************************************************************)
(* C20 as stated: a reference of a named function to its own name inside   *)
(* its body is resolved in the function's own scope - it neither marks the *)
(* name Boxed in the enclosing block's map nor adds it to the function's   *)
(* closure set - whereas a reference to the function from inside a         *)
(* different nested function marks the name Boxed in the enclosing block's *)
(* map and adds it to a closure set (either variant).                      *)
(***************************************************************************)
C20_SelfReferenceLocal ==
    \A n \in Names :
       /\ CBody =>
            LET c == C_lookup_local(checker, n)
            IN /\ C20_SelfOf(checker.names, checker.variable_types,
                             checker.closed_names, c.variable_types,
                             c.closed_names, n)
               /\ C20_OtherOf(checker.names, c.variable_types, c.closed_names, n)
       /\ ABody =>
            LET a == A_lookup_name(annotator, n)
            IN /\ C20_SelfOf(annotator.scopes, annotator.block_scopes,
                             annotator.closure_scopes, a.block_scopes,
                             a.closure_scopes, n)
               /\ C20_OtherOf(annotator.scopes, a.block_scopes, a.closure_scopes, n)

(***************************************************************************)
(* C20 amended: a reference of a named function to its own name inside its *)
(* body marks nothing Boxed and changes no closure set of the function.  A *)
(* reference to the function from inside another function adds the name to *)
(* that function's closure set and marks Boxed the entry it resolves to:   *)
(* the enclosing block's entry when the other function is declared beside  *)
(* it, and the entry of the function's own scope - the enclosing block's   *)
(* entry and the function's closure set staying as they are - when the     *)
(* other function is nested in its body (either variant).                  *)
(***************************************************************************)
C20_SelfReferenceLocalNestedOwnScope ==
    \A n \in Names :
       /\ CBody =>
            LET c == C_lookup_local(checker, n)
            IN /\ C20_SelfOf(checker.names, checker.variable_types,
                             checker.closed_names, c.variable_types,
                             c.closed_names, n)
               /\ C20_OtherAmendedOf(checker.names, checker.variable_types,
                                     checker.closed_names, c.variable_types,
                                     c.closed_names, n)
       /\ ABody =>
            LET a == A_lookup_name(annotator, n)
            IN /\ C20_SelfOf(annotator.scopes, annotator.block_scopes,
                             annotator.closure_scopes, a.block_scopes,
                             a.closure_scopes, n)
               /\ C20_OtherAmendedOf(annotator.scopes, annotator.block_scopes,
                                     annotator.closure_scopes, a.block_scopes,
                                     a.closure_scopes, n)

\* a function nested in the body of the open function f has referred to f:
\* f's own scope entry is Boxed, the enclosing block's entry is not
C20_Witness ==
    \E i \in 2..Len(checker.names) :
       LET n == ScopeFname(i)
       IN /\ CBody /\ n # ""
          /\ checker.names[i].type = "Function"
          /\ InnerFn(checker.names) > i
          /\ IsBoxed(checker.variable_types, checker.names[i].tok, n)
          /\ Class(checker.variable_types, checker.names[i - 1].tok, n) = "Normal"
          /\ n \in ClosureOf(checker.closed_names,
                             checker.names[InnerFn(checker.names)].tok)

(***************************************************************************)
(* The store a pass returns, as the claim compares it: the (scope token,   *)
(* name, class) entries and the closure set of every function token.       *)
(***************************************************************************)
Entries(table) ==
    {e \in Toks \X Names \X {"Normal", "Boxed"} : Class(table, e[1], e[2]) = e[3]}
BothAccepted == check_result.tag = "Ok" /\ annot_result.tag = "Ok"

(***************************************************************************)
(* C21.  The two resolver variants are one specification: for every        *)
(* program of blocks, var declarations, named function declarations and    *)
(* name references that check accepts, check and generate_annotations      *)
(* return the same store - the same (scope token, name) entries with the   *)
(* same class, and the same closure set for every function token.          *)
(***************************************************************************)
C21_SameStore ==
    BothAccepted =>
       /\ Entries(check_result.variable_types) = Entries(annot_result.variable_types)
       /\ \A t \in Toks :
             ClosureOf(check_result.closed_names, t)
                = ClosureOf(annot_result.closed_names, t)

(***************************************************************************)
(* The auxiliary stacks of Checker, read off the scope stack.              *)
(***************************************************************************)
ScopeToks(st) == [i \in 1..Len(st) |-> st[i].tok]
IsFunctionScope(s) == s.type = "Function"
FunctionToks(st) == ScopeToks(SelectSeq(st, IsFunctionScope))
RECURSIVE NamesHeld(_)
NamesHeld(st) ==
    IF st = <<>> THEN 0
    ELSE Cardinality(DOMAIN Last(st).map) + NamesHeld(Front(st))
CheckRunning == Checking /\ checker.err = NoErr

\* the auxiliary stacks agree with the scope stack
AuxiliaryAgree ==
    CheckRunning =>
       /\ Last(checker.current_block) = Last(checker.names).tok
       /\ IF InnerFn(checker.names) = 0
          THEN checker.current_function = <<>>
          ELSE /\ checker.current_function # <<>>
               /\ Last(checker.current_function)
                     = checker.names[InnerFn(checker.names)].tok
       /\ checker.total_variables = NamesHeld(checker.names)
       \* and so all of each stack is given by the scope stack
       /\ checker.current_function = FunctionToks(checker.names)
       /\ checker.current_block = <<ProgramTok>> \o ScopeToks(checker.names)

\* the scopes under the top scope are left alone while the top scope is
\* visited, and the end of a visit takes exactly the top scope away: a block
\* leaves the stack as it was when the block was entered, a function too,
\* up to the define_name of the declaration statement that follows it
ScopesRestored ==
    CheckRunning /\ checker'.err = NoErr =>
       LET st == checker.names
           st2 == checker'.names
           n == Len(st)
           n2 == Len(st2)
       IN /\ n2 >= n - 1
          /\ n2 >= n => \A i \in 1..(n - 1) : st2[i] = st[i]
          /\ n2 < n =>
                /\ C_pop_scope(checker).names = Front(st)
                /\ IF st[n].type = "Block"
                   THEN st2 = Front(st)
                   ELSE st2 = [Front(st) EXCEPT ![n2].map[Top.fname] = TRUE]

(***************************************************************************)
(* C22.  At every point of a pass of check that has not failed, the        *)
(* auxiliary stacks agree with the scope stack: the top of current_block   *)
(* is the token of the top scope, the top of current_function is the token *)
(* of the innermost Function scope, total_variables is the number of names *)
(* held by all scopes of the stack; and when a block or function has been  *)
(* visited the scope stack - and with it the three - is as it was before   *)
(* the block or function was entered.                                      *)
(***************************************************************************)
C22_AuxiliaryStacks == [](AuxiliaryAgree) /\ [][ScopesRestored]_vars

\* a function that declares names has been visited: the pass is back in the
\* program's block, with no function open and the names of the block counted
C22_Witness ==
    /\ CBody /\ checker.err = NoErr
    /\ Len(checker.names) = 2
    /\ checker.current_function = <<>>
    /\ \E t \in DOMAIN checker.closed_names :
          Cardinality(DOMAIN checker.variable_types[t]) >= 2
    /\ checker.total_variables = Cardinality(DOMAIN checker.names[2].map)
    /\ checker.total_variables >= 1

====
